---------------------------- MODULE Spec2Model ----------------------------
(***************************************************************************)
(* Model of etl.py: the Sparkify data-lake ETL.  main() runs               *)
(* process_song_data and then process_log_data; between them they run five *)
(* Spark write jobs (songs, artists, users, time, songplays), each a       *)
(* blocking call that scans the raw JSON source when it runs.              *)
(*                                                                         *)
(* Representation.                                                         *)
(*   - a raw source is the sequence of its JSON lines (records);           *)
(*   - a DataFrame is a sequence of rows; the songplays job evaluates the  *)
(*     log DataFrame in partitions, on which monotonically_increasing_id   *)
(*     depends;                                                            *)
(*   - a written parquet table is a bag of rows (row -> number of copies); *)
(*   - SQL NULL is the value NULL; a comparison with NULL is never true;   *)
(*   - the 64-bit songplay_id is kept as its two bit fields                *)
(*     [partition (upper 31 bits), row (lower 33 bits)];                   *)
(*   - the epoch-millisecond ts is kept as [sec, ms] (ts = sec*1000 + ms). *)
(***************************************************************************)
EXTENDS Integers, Sequences, FiniteSets, Bags, TLC

\* ------------------------------------------------------------------ bounds
MaxSongRecords == 2
MaxLogRecords == 2
MaxRuns == 2
MaxSourceChanges == 1

\* ------------------------------------------------------------- SQL basics
NULL == "NULL"

\* SQL equality in a WHERE / ON clause: true only for two equal non-null values.
SqlEq(a, b) == a # NULL /\ b # NULL /\ a = b

Range(s) == {s[i] : i \in DOMAIN s}

\* The bag of the rows of a DataFrame (what a write job stores).
BagOf(s) == [r \in Range(s) |-> Cardinality({i \in DOMAIN s : s[i] = r})]

\* Number of rows of a bag.
Rows(b) == BagCardinality(b)

RECURSIVE Concat(_)
Concat(ss) == IF ss = <<>> THEN <<>> ELSE Head(ss) \o Concat(Tail(ss))

\* ------------------------------------------------------------ raw records
SongRecord(sid, t, aid, an, loc, yr, dur) ==
    [song_id |-> sid, title |-> t, artist_id |-> aid, artist_name |-> an,
     artist_location |-> loc, artist_latitude |-> 35, artist_longitude |-> -90,
     year |-> yr, duration |-> dur]

\* The song records the sources are drawn from: the scenario record, a second
\* song with the same title and artist name, and the scenario song with
\* another duration (same natural key, different tuple).
SongUniverse ==
    { SongRecord("S1", "Test Song", "A1", "Test Artist", "X", 2000, 180),
      SongRecord("S2", "Test Song", "A2", "Test Artist", "Y", 2001, 180),
      SongRecord("S1", "Test Song", "A1", "Test Artist", "X", 2000, 200) }

EventRecord(pg, sg, ar, lvl, t) ==
    [userId |-> "7", firstName |-> "Ann", lastName |-> "Lee", gender |-> "F",
     level |-> lvl, page |-> pg, ts |-> t, song |-> sg, artist |-> ar,
     sessionId |-> 100, location |-> "X", userAgent |-> "Y"]

\* ts = 1542241826796 (2018-11-15 00:30:26.796 UTC) and ts = 1546300799005
\* (2018-12-31 23:59:59.005 UTC, in ISO week 1 of 2019).
Ts1 == [sec |-> 1542241826, ms |-> 796]
Ts2 == [sec |-> 1546300799, ms |-> 5]

\* The event records the sources are drawn from: the scenario play, a play of
\* a song no song record has (by the same user on another level), a page
\* view that is no play, and a record without a page value.
EventUniverse ==
    { EventRecord("NextSong", "Test Song", "Test Artist", "free", Ts1),
      EventRecord("NextSong", "Lost Song", "Test Artist", "paid", Ts2),
      EventRecord("Home", NULL, NULL, "free", Ts1),
      EventRecord(NULL, "Test Song", "Test Artist", "free", Ts1) }

SeqsUpTo(S, n) == UNION {[1..k -> S] : k \in 0..n}

SongSources == SeqsUpTo(SongUniverse, MaxSongRecords)
LogSources == SeqsUpTo(EventUniverse, MaxLogRecords)

\* The UTC offsets (seconds) of the machines a run may execute on.
TimeZones == {0, -21600}

\* -------------------------------------------------- process_song_data (SQL)
\* Variant: the SELECT without its GROUP BY.
GroupByAll_NoGroupBy(rows) == BagOf(rows)

\* SELECT ... GROUP BY 1,2,3,4,5: one row per distinct tuple of the selected
\* columns.  (ORDER BY 1 orders the DataFrame; the stored table is a bag.)
GroupByAll(rows) == [r \in Range(rows) |-> 1]

SongRow(r) ==
    [song_id |-> r.song_id, title |-> r.title, artist_id |-> r.artist_id,
     year |-> r.year, duration |-> r.duration]

songs_table(song_data) ==
    GroupByAll([i \in DOMAIN song_data |-> SongRow(song_data[i])])

ArtistRow(r) ==
    [artist_id |-> r.artist_id, name |-> r.artist_name,
     location |-> r.artist_location, latitude |-> r.artist_latitude,
     longitude |-> r.artist_longitude]

artists_table(song_data) ==
    GroupByAll([i \in DOMAIN song_data |-> ArtistRow(song_data[i])])

\* --------------------------------------------------- process_log_data (SQL)
\* Variant: the filter keeps every record that has a page value.
IsNextSong_AnyPage(r) == r.page # NULL

IsNextSong(r) == SqlEq(r.page, "NextSong")

\* df = spark.read.json(log_data).where(df.page == 'NextSong')
FilterNextSong(lines) == SelectSeq(lines, IsNextSong)

\* The partitions the engine evaluates df in: contiguous runs of its rows,
\* split being the number of rows in the first of the two.
Partitions(df, split) ==
    << SubSeq(df, 1, split), SubSeq(df, split + 1, Len(df)) >>

UserRow(r) ==
    [user_id |-> r.userId, first_name |-> r.firstName, last_name |-> r.lastName,
     gender |-> r.gender, level |-> r.level]

users_table(log_data) ==
    GroupByAll([i \in DOMAIN log_data |-> UserRow(log_data[i])])

\* get_timestamp: int(x)/1000, a float: the whole seconds and the thousandths.
get_timestamp(x) == [sec |-> x.sec, frac |-> x.ms]

\* get_datetime: datetime.fromtimestamp(int(x)/1000), the naive local datetime
\* of the instant on a machine whose zone is tz seconds east of UTC, kept as
\* the local seconds since 1970-01-01T00:00:00 and the microseconds.
get_datetime(x, zone) == [sec |-> x.sec + zone, micro |-> x.ms * 1000]

\* Calendar fields of a datetime (proleptic Gregorian calendar).
DayNumber(dt) == dt.sec \div 86400

IsLeap(y) == (y % 4 = 0 /\ y % 100 # 0) \/ y % 400 = 0

\* Days from 1970-01-01 to the first of January of year y.
DaysBeforeYear(y) ==
    365 * (y - 1970) + ((y - 1) \div 4 - 492) - ((y - 1) \div 100 - 19)
        + ((y - 1) \div 400 - 4)

YearOf(dt) ==
    LET n == DayNumber(dt)
        guess == 1970 + n \div 365
    IN  CHOOSE y \in (guess - 1)..(guess + 1) :
            DaysBeforeYear(y) <= n /\ n < DaysBeforeYear(y + 1)

\* Day of the year, 1..366.
DayOfYear(dt) == DayNumber(dt) - DaysBeforeYear(YearOf(dt)) + 1

DaysInMonth(y, m) ==
    IF m = 2 THEN (IF IsLeap(y) THEN 29 ELSE 28)
    ELSE IF m \in {4, 6, 9, 11} THEN 30 ELSE 31

RECURSIVE DaysBeforeMonth(_, _)
DaysBeforeMonth(y, m) ==
    IF m = 1 THEN 0 ELSE DaysBeforeMonth(y, m - 1) + DaysInMonth(y, m - 1)

MonthOf(dt) ==
    LET y == YearOf(dt)
        d == DayOfYear(dt)
    IN  CHOOSE m \in 1..12 :
            DaysBeforeMonth(y, m) < d /\ d <= DaysBeforeMonth(y, m) + DaysInMonth(y, m)

DayOf(dt) == DayOfYear(dt) - DaysBeforeMonth(YearOf(dt), MonthOf(dt))

HourOf(dt) == (dt.sec % 86400) \div 3600

\* dayofweek: 1 = Sunday .. 7 = Saturday (1970-01-01 was a Thursday).
DayOfWeek(dt) == ((DayNumber(dt) + 4) % 7) + 1

\* ISO-8601 weekday, 1 = Monday .. 7 = Sunday.
IsoWeekday(n) == ((n + 3) % 7) + 1

\* Number of ISO weeks of year y: 53 when 1 January is a Thursday, or a
\* Wednesday in a leap year.
IsoWeeksIn(y) ==
    LET w == IsoWeekday(DaysBeforeYear(y))
    IN  IF w = 4 \/ (w = 3 /\ IsLeap(y)) THEN 53 ELSE 52

\* weekofyear: the ISO-8601 week number.
WeekOfYear(dt) ==
    LET y == YearOf(dt)
        w == (DayOfYear(dt) - IsoWeekday(DayNumber(dt)) + 10) \div 7
    IN  IF w < 1 THEN IsoWeeksIn(y - 1)
        ELSE IF w > IsoWeeksIn(y) THEN 1
        ELSE w

TimeRow(r) ==
    [start_time |-> r.datetime, hour |-> HourOf(r.datetime),
     day |-> DayOf(r.datetime), week |-> WeekOfYear(r.datetime),
     month |-> MonthOf(r.datetime), year |-> YearOf(r.datetime),
     weekday |-> DayOfWeek(r.datetime)]

\* log_df: df with the columns timestamp and datetime added.
WithTimestamps(df, zone) ==
    [i \in DOMAIN df |->
        [ev |-> df[i],
         timestamp |-> get_timestamp(df[i].ts),
         datetime |-> get_datetime(df[i].ts, zone)]]

time_table(log_data_ts) ==
    GroupByAll([i \in DOMAIN log_data_ts |-> TimeRow(log_data_ts[i])])

\* Variant: the id is the row number alone.
monotonically_increasing_id_RowOnly(p, i) == [partition |-> 0, row |-> i - 1]

\* monotonically_increasing_id(): the partition index in the upper 31 bits,
\* the row's number within its partition in the lower 33 bits.
monotonically_increasing_id(p, i) == [partition |-> p - 1, row |-> i - 1]

\* log_df.withColumn('songplay_id', monotonically_increasing_id()), log_df
\* given in its partitions.
WithSongplayId(log_df) ==
    [p \in DOMAIN log_df |->
        [i \in DOMAIN log_df[p] |->
            [ev |-> log_df[p][i].ev,
             timestamp |-> log_df[p][i].timestamp,
             datetime |-> log_df[p][i].datetime,
             songplay_id |-> monotonically_increasing_id(p, i)]]]

\* Variant: the ON clause compares the song title with the artist name.
JoinOn_WrongColumn(l, s) ==
    SqlEq(l.ev.song, s.artist_name) /\ SqlEq(l.ev.artist, s.artist_name)

\* ON l.song = s.title AND l.artist = s.artist_name
JoinOn(l, s) == SqlEq(l.ev.song, s.title) /\ SqlEq(l.ev.artist, s.artist_name)

SongplayRow(l, sid, aid) ==
    [songplay_id |-> l.songplay_id, start_time |-> l.datetime,
     user_id |-> l.ev.userId, level |-> l.ev.level,
     song_id |-> sid, artist_id |-> aid,
     session_id |-> l.ev.sessionId, location |-> l.ev.location,
     user_agent |-> l.ev.userAgent,
     year |-> YearOf(l.datetime), month |-> MonthOf(l.datetime)]

\* Variant: an inner join.
JoinRows_Inner(l, song_df) ==
    LET m == SelectSeq(song_df, LAMBDA s : JoinOn(l, s))
    IN  [k \in DOMAIN m |-> SongplayRow(l, m[k].song_id, m[k].artist_id)]

\* Variant: a left join against the distinct song records.
JoinRows_Distinct(l, song_df) ==
    LET m == {s \in Range(song_df) : JoinOn(l, s)}
        RECURSIVE AsSeq(_)
        AsSeq(S) == IF S = {} THEN <<>>
                    ELSE LET x == CHOOSE x \in S : TRUE
                         IN  << SongplayRow(l, x.song_id, x.artist_id) >>
                                 \o AsSeq(S \ {x})
    IN  IF m = {} THEN << SongplayRow(l, NULL, NULL) >> ELSE AsSeq(m)

\* Variant: every joined row takes artist_id from the first matching record.
JoinRows_FirstArtist(l, song_df) ==
    LET m == SelectSeq(song_df, LAMBDA s : JoinOn(l, s))
    IN  IF m = <<>> THEN << SongplayRow(l, NULL, NULL) >>
        ELSE [k \in DOMAIN m |-> SongplayRow(l, m[k].song_id, m[1].artist_id)]

\* The rows one row of logs gives in logs LEFT JOIN songs: one per matching
\* song record, or a single row with NULL song columns when there is none.
JoinRows(l, song_df) ==
    LET m == SelectSeq(song_df, LAMBDA s : JoinOn(l, s))
    IN  IF m = <<>> THEN << SongplayRow(l, NULL, NULL) >>
        ELSE [k \in DOMAIN m |-> SongplayRow(l, m[k].song_id, m[k].artist_id)]

LeftJoin(logs, song_df) ==
    Concat([i \in DOMAIN logs |-> JoinRows(logs[i], song_df)])

songplays_table(log_df, split, song_df) ==
    BagOf(LeftJoin(Concat(WithSongplayId(Partitions(log_df, split))), song_df))

\* ------------------------------------------------------------------- state
VARIABLES
    song_source,   \* the lines under input_data/song_data/*/*/*/*.json
    log_source,    \* the lines under input_data/log_data/*/*.json
    changes,       \* how often the raw sources were changed from outside
    run,           \* number of the current (or last) run of main()
    tz,            \* UTC offset of the local zone of the executing machine
    pc,            \* "idle", the table whose write job is next, "done", "failed"
    failed_stage,  \* the write job that raised, when pc = "failed"
    table,         \* output_data: table name -> bag of rows stored there
    writer,        \* table name -> the run whose write job last completed (0: none)
    scanned,       \* table name -> what that write job read from the sources
    replaced       \* the tables whose last write replaced other, older rows

vars == << song_source, log_source, changes, run, tz, pc, failed_stage,
           table, writer, scanned, replaced >>

\* The write jobs in program order: process_song_data, then process_log_data.
Stages == << "songs", "artists", "users", "time", "songplays" >>

Tables == Range(Stages)

StageIndex(t) == CHOOSE i \in DOMAIN Stages : Stages[i] = t

\* Variant: main() goes from the songs job straight to process_log_data.
NextPc_SkipArtists(t) ==
    IF t = "songs" THEN "users"
    ELSE IF StageIndex(t) = Len(Stages) THEN "done"
    ELSE Stages[StageIndex(t) + 1]

\* What follows the write job of table t.
NextPc(t) ==
    IF StageIndex(t) = Len(Stages) THEN "done" ELSE Stages[StageIndex(t) + 1]

NoScan == [song |-> <<>>, log |-> <<>>, split |-> 0]

Init ==
    /\ song_source \in SongSources
    /\ log_source \in LogSources
    /\ changes = 0
    /\ run = 0
    /\ tz \in TimeZones
    /\ pc = "idle"
    /\ failed_stage = "none"
    /\ table = [t \in Tables |-> EmptyBag]
    /\ writer = [t \in Tables |-> 0]
    /\ scanned = [t \in Tables |-> NoScan]
    /\ replaced = {}

\* Variant: mode('append').
Overwrite_Append(old, new) == old (+) new

\* .write.mode('overwrite').parquet(path): what the location holds afterwards.
Overwrite(old, new) == new

\* The df of process_log_data as a write job evaluates it: read, then filter.
LogDf == FilterNextSong(log_source)

\* A write job that completes: the table is overwritten, the program moves on.
Commit(t, rows, scan) ==
    /\ table' = [table EXCEPT ![t] = Overwrite(table[t], rows)]
    /\ writer' = [writer EXCEPT ![t] = run]
    /\ scanned' = [scanned EXCEPT ![t] = scan]
    /\ replaced' = IF table[t] # EmptyBag /\ table[t] # rows
                   THEN replaced \cup {t} ELSE replaced \ {t}
    /\ pc' = NextPc(t)
    /\ UNCHANGED << song_source, log_source, changes, run, tz, failed_stage >>

\* main(): a new run starts.
StartRun ==
    /\ pc \in {"idle", "done", "failed"}
    /\ run < MaxRuns
    /\ run' = run + 1
    /\ pc' = Stages[1]
    /\ failed_stage' = "none"
    /\ UNCHANGED << song_source, log_source, changes, tz, table, writer, scanned, replaced >>

WriteSongs ==
    /\ pc = "songs"
    /\ Commit("songs", songs_table(song_source),
              [NoScan EXCEPT !.song = song_source])

WriteArtists ==
    /\ pc = "artists"
    /\ Commit("artists", artists_table(song_source),
              [NoScan EXCEPT !.song = song_source])

WriteUsers ==
    /\ pc = "users"
    /\ Commit("users", users_table(LogDf), [NoScan EXCEPT !.log = log_source])

WriteTime ==
    /\ pc = "time"
    /\ Commit("time", time_table(WithTimestamps(LogDf, tz)),
              [NoScan EXCEPT !.log = log_source])

WriteSongplays ==
    /\ pc = "songplays"
    /\ \E split \in 0..Len(LogDf) :
          Commit("songplays",
                 songplays_table(WithTimestamps(LogDf, tz), split, song_source),
                 [song |-> song_source, log |-> log_source, split |-> split])

\* A write job raises (storage unreachable, credentials invalid, ...): the
\* exception ends main().  The job's own location is left untouched, or the
\* overwrite has already removed the old files and none of the new ones is
\* committed.
Fail ==
    /\ pc \in Tables
    /\ pc' = "failed"
    /\ failed_stage' = pc
    /\ \/ UNCHANGED << table, writer >>
       \/ /\ table' = [table EXCEPT ![pc] = EmptyBag]
          /\ writer' = [writer EXCEPT ![pc] = 0]
    /\ UNCHANGED << song_source, log_source, changes, run, tz, scanned, replaced >>

\* The raw sources belong to somebody else: a file of one record is added to
\* or removed from them at any time.
SongSourceChange ==
    /\ changes < MaxSourceChanges
    /\ changes' = changes + 1
    /\ \/ /\ Len(song_source) < MaxSongRecords
          /\ \E r \in SongUniverse : song_source' = Append(song_source, r)
       \/ /\ song_source # <<>>
          /\ song_source' = Tail(song_source)
    /\ UNCHANGED << log_source, run, tz, pc, failed_stage, table, writer, scanned, replaced >>

LogSourceChange ==
    /\ changes < MaxSourceChanges
    /\ changes' = changes + 1
    /\ \/ /\ Len(log_source) < MaxLogRecords
          /\ \E r \in EventUniverse : log_source' = Append(log_source, r)
       \/ /\ log_source # <<>>
          /\ log_source' = Tail(log_source)
    /\ UNCHANGED << song_source, run, tz, pc, failed_stage, table, writer, scanned, replaced >>

Next ==
    \/ StartRun
    \/ WriteSongs
    \/ WriteArtists
    \/ WriteUsers
    \/ WriteTime
    \/ WriteSongplays
    \/ Fail
    \/ SongSourceChange
    \/ LogSourceChange

Spec == Init /\ [][Next]_vars


\* ============================================================ properties
\* Table t holds what the current run's write job stored.
Current(t) == run > 0 /\ writer[t] = run

\* The raw event lines that are plays.
PlayIndexes(log) == {i \in DOMAIN log : log[i].page = "NextSong"}

\* The datetime the run derives from a raw event.
StartTime(e) == get_datetime(e.ts, tz)

\* The rows of the view logs in the songplays job that wrote the table.
LogsView ==
    Concat(WithSongplayId(Partitions(
        WithTimestamps(FilterNextSong(scanned["songplays"].log), tz),
        scanned["songplays"].split)))

\* Number of stored fact rows that carry the songplay_id of the logs row l.
FactRowsOf(l) ==
    LET b == table["songplays"]
        D == {r \in DOMAIN b : r.songplay_id = l.songplay_id}
    IN  Rows([r \in D |-> b[r]])

\* The raw song lines the songplays job read whose title and artist name are
\* those of the logs row l.
SongMatches(l) ==
    LET song == scanned["songplays"].song
    IN  {i \in DOMAIN song :
            song[i].title = l.ev.song /\ song[i].artist_name = l.ev.artist}

\* What the write job of table t stores, from what it read.
RunData(t) ==
    LET plays == FilterNextSong(scanned[t].log)
    IN  CASE t = "songs" -> songs_table(scanned[t].song)
          [] t = "artists" -> artists_table(scanned[t].song)
          [] t = "users" -> users_table(plays)
          [] t = "time" -> time_table(WithTimestamps(plays, tz))
          [] t = "songplays" ->
                songplays_table(WithTimestamps(plays, tz), scanned[t].split,
                                scanned[t].song)

\* C1: the users, time and songplays tables are built from exactly the raw
\* event records whose page is "NextSong": every play is there, and no record
\* with another page value or without one contributes a row.
C1_FilterExact ==
    /\ Current("users") =>
          LET log == scanned["users"].log
          IN  DOMAIN table["users"] = {UserRow(log[i]) : i \in PlayIndexes(log)}
    /\ Current("time") =>
          LET log == scanned["time"].log
          IN  {r.start_time : r \in DOMAIN table["time"]}
                  = {StartTime(log[i]) : i \in PlayIndexes(log)}
    /\ Current("songplays") =>
          LET log == scanned["songplays"].log
              b == table["songplays"]
          IN  /\ Cardinality({r.songplay_id : r \in DOMAIN b})
                    = Cardinality(PlayIndexes(log))
              /\ {<<r.user_id, r.level, r.start_time>> : r \in DOMAIN b}
                    = {<<log[i].userId, log[i].level, StartTime(log[i])>> :
                          i \in PlayIndexes(log)}

\* A completed run whose event source had a play and a record that is none.
C1_Witness ==
    /\ pc = "done"
    /\ \A t \in {"users", "time"} : scanned[t].log = scanned["songplays"].log
    /\ \E i, j \in DOMAIN scanned["songplays"].log :
          /\ scanned["songplays"].log[i].page = "NextSong"
          /\ scanned["songplays"].log[j].page # "NextSong"

\* C2: every filtered event has at least one fact row, and an event whose
\* (song, artist) is the (title, artist_name) of no raw song record has
\* exactly one, with song_id and artist_id both null.
C2_LeftJoinComplete ==
    Current("songplays") =>
        \A k \in DOMAIN LogsView :
            LET l == LogsView[k]
            IN  /\ FactRowsOf(l) >= 1
                /\ SongMatches(l) = {} =>
                      /\ FactRowsOf(l) = 1
                      /\ \A r \in DOMAIN table["songplays"] :
                            r.songplay_id = l.songplay_id =>
                                r.song_id = NULL /\ r.artist_id = NULL

\* A completed run with song records, one event that matches one of them and
\* one that matches none.
C2_Witness ==
    /\ pc = "done"
    /\ scanned["songplays"].song # <<>>
    /\ \E k \in DOMAIN LogsView : SongMatches(LogsView[k]) = {}
    /\ \E k \in DOMAIN LogsView : SongMatches(LogsView[k]) # {}

\* C3: the songplays table holds exactly one row per filtered event: as many
\* rows as filtered events, and no songplay_id on two rows.
C3_OneRowPerEvent ==
    Current("songplays") =>
        /\ Rows(table["songplays"])
              = Cardinality(PlayIndexes(scanned["songplays"].log))
        /\ \A k \in DOMAIN LogsView : FactRowsOf(LogsView[k]) = 1

\* C4: the songplay_id values of the filtered events are pairwise distinct;
\* the fact rows of one event all carry its id, and no id is shared by the
\* rows of two events.
C4_SurrogateKeys ==
    Current("songplays") =>
        /\ \A j, k \in DOMAIN LogsView :
              j # k => LogsView[j].songplay_id # LogsView[k].songplay_id
        /\ Cardinality({r.songplay_id : r \in DOMAIN table["songplays"]})
              = Cardinality(PlayIndexes(scanned["songplays"].log))
        /\ \A k \in DOMAIN LogsView :
              FactRowsOf(LogsView[k])
                  = IF SongMatches(LogsView[k]) = {} THEN 1
                    ELSE Cardinality(SongMatches(LogsView[k]))
        /\ Rows(table["songplays"])
              = Rows([k \in DOMAIN LogsView |-> FactRowsOf(LogsView[k])])

\* A completed run with two filtered events in two partitions, one of them
\* with more than one fact row.
C4_Witness ==
    /\ pc = "done"
    /\ Len(LogsView) = 2
    /\ LogsView[1].songplay_id.partition # LogsView[2].songplay_id.partition
    /\ \E k \in DOMAIN LogsView : FactRowsOf(LogsView[k]) > 1

\* C5: each dimension table holds the distinct tuples of its columns over the
\* records it was built from, each tuple once; records that share the
\* natural key and differ elsewhere give separate rows.
C5_FullTupleDedup ==
    /\ \A t \in {"songs", "artists", "users", "time"} :
          Current(t) => \A r \in DOMAIN table[t] : table[t][r] = 1
    /\ Current("songs") =>
          LET song == scanned["songs"].song
          IN  DOMAIN table["songs"] = {SongRow(song[i]) : i \in DOMAIN song}
    /\ Current("artists") =>
          LET song == scanned["artists"].song
          IN  DOMAIN table["artists"] = {ArtistRow(song[i]) : i \in DOMAIN song}
    /\ Current("users") =>
          LET log == scanned["users"].log
          IN  DOMAIN table["users"] = {UserRow(log[i]) : i \in PlayIndexes(log)}
    /\ Current("time") =>
          LET log == scanned["time"].log
          IN  DOMAIN table["time"]
                = {TimeRow([datetime |-> StartTime(log[i])]) : i \in PlayIndexes(log)}

\* A completed run over two song records with one song_id and different
\* durations (two songs rows, one artists row) and two plays of one user on
\* different levels (two users rows).
C5_Witness ==
    /\ pc = "done"
    /\ \E r1, r2 \in DOMAIN table["songs"] : r1 # r2 /\ r1.song_id = r2.song_id
    /\ Rows(table["artists"]) = 1
    /\ Len(scanned["artists"].song) = 2
    /\ \E u1, u2 \in DOMAIN table["users"] : u1 # u2 /\ u1.user_id = u2.user_id

\* C6: the tables are written in the order songs, artists, users, time,
\* songplays; a run ends with all five written by it, or failed, with the
\* tables before the failing stage holding this run's rows and the tables
\* after it not written by this run.
C6_OrderAndAbort ==
    /\ pc \in Tables =>
          \A t \in Tables : Current(t) <=> StageIndex(t) < StageIndex(pc)
    /\ pc = "done" => \A t \in Tables : Current(t) /\ table[t] = RunData(t)
    /\ pc = "failed" =>
          \A t \in Tables :
              /\ StageIndex(t) < StageIndex(failed_stage) =>
                    Current(t) /\ table[t] = RunData(t)
              /\ StageIndex(t) > StageIndex(failed_stage) => writer[t] < run

\* The second run failed in the users job: songs and artists are this run's,
\* time and songplays still hold the rows of the first run.
C6_Witness ==
    /\ pc = "failed"
    /\ failed_stage = "users"
    /\ run = 2
    /\ writer["songplays"] = 1
    /\ table["songplays"] # EmptyBag
    /\ "songs" \in replaced

\* C7: one song record (S1, "Test Song", A1, "Test Artist") and one NextSong
\* event for that song and artist give one row in each of the five tables,
\* and the songplays row has song_id S1 and artist_id A1.
C7_EndToEnd ==
    (/\ pc = "done"
     /\ \A t \in {"songs", "artists", "songplays"} :
           /\ Len(scanned[t].song) = 1
           /\ scanned[t].song[1].song_id = "S1"
           /\ scanned[t].song[1].title = "Test Song"
           /\ scanned[t].song[1].artist_id = "A1"
           /\ scanned[t].song[1].artist_name = "Test Artist"
     /\ \A t \in {"users", "time", "songplays"} :
           /\ Len(scanned[t].log) = 1
           /\ scanned[t].log[1].page = "NextSong"
           /\ scanned[t].log[1].song = "Test Song"
           /\ scanned[t].log[1].artist = "Test Artist")
    => /\ \A t \in Tables : Rows(table[t]) = 1
       /\ \A r \in DOMAIN table["songplays"] :
             r.song_id = "S1" /\ r.artist_id = "A1"

\* A completed run over the scenario's two records.
C7_Witness ==
    /\ pc = "done"
    /\ \A t \in {"songs", "artists", "songplays"} :
          Len(scanned[t].song) = 1 /\ scanned[t].song[1].song_id = "S1"
    /\ \A t \in {"users", "time", "songplays"} :
          /\ Len(scanned[t].log) = 1
          /\ scanned[t].log[1].page = "NextSong"
          /\ scanned[t].log[1].song = "Test Song"
    /\ \A t \in Tables : Rows(table[t]) = 1

\* C8: after a completed run every table holds what that run computed from
\* the source it read, and nothing else: no row of an earlier run remains.
C8_FullRefresh ==
    \A t \in Tables : Current(t) => table[t] = RunData(t)

\* A second completed run that replaced rows of the first in songs and
\* songplays.
C8_Witness ==
    /\ pc = "done"
    /\ run = 2
    /\ {"songs", "songplays"} \subseteq replaced
    /\ table["songs"] # EmptyBag
    /\ table["songplays"] # EmptyBag

\* C9: the join is against the raw song records: an event whose (song,
\* artist) is the (title, artist_name) of n >= 1 raw song records has
\* exactly n fact rows, identical records included.
C9_JoinOnRawRecords ==
    Current("songplays") =>
        \A k \in DOMAIN LogsView :
            SongMatches(LogsView[k]) # {} =>
                FactRowsOf(LogsView[k]) = Cardinality(SongMatches(LogsView[k]))

\* A completed run over two identical song records: one songs row, two fact
\* rows for the event that matches them.
C9_Witness ==
    /\ pc = "done"
    /\ Len(scanned["songplays"].song) = 2
    /\ scanned["songplays"].song[1] = scanned["songplays"].song[2]
    /\ scanned["songs"].song = scanned["songplays"].song
    /\ Rows(table["songs"]) = 1
    /\ \E k \in DOMAIN LogsView : FactRowsOf(LogsView[k]) = 2

\* The songs, artists and songplays jobs of the run read the same song records.
SameSongReads ==
    /\ scanned["songs"].song = scanned["songplays"].song
    /\ scanned["artists"].song = scanned["songplays"].song

\* Every non-null song_id / artist_id of a fact row is in the songs / artists
\* table, and the two come from one song record.
ReferentialIntegrity ==
    \A r \in DOMAIN table["songplays"] :
        /\ r.song_id = NULL <=> r.artist_id = NULL
        /\ r.song_id # NULL =>
              /\ \E s \in DOMAIN table["songs"] :
                    s.song_id = r.song_id /\ s.artist_id = r.artist_id
              /\ \E a \in DOMAIN table["artists"] : a.artist_id = r.artist_id

\* C10: after a completed run whose reads of the song source saw the same
\* records, the fact table's song_id and artist_id refer to rows of the
\* songs and artists tables of that run and come from one song record.
C10_ReferentialIntegrity ==
    (pc = "done" /\ SameSongReads) => ReferentialIntegrity

\* A completed run with the same song records in all reads and a fact row
\* that refers to a song.
C10_Witness ==
    /\ pc = "done"
    /\ SameSongReads
    /\ \E r \in DOMAIN table["songplays"] : r.song_id # NULL
    /\ Rows(table["songs"]) = 2

=============================================================================
